---- MODULE Spec2Model ----
(***************************************************************************)
(* A model of matrix.c: the dense-matrix toolbox (matrix_create,           *)
(* matrix_multiply, matrix_transpose, matrix_determinant, matrix_inverse)  *)
(* and the menu loop of main that owns the current matrix.                 *)
(*                                                                         *)
(* A double is an IEEE 754 binary64 value: sign, 53-bit significand and    *)
(* exponent, with zeros of both signs, subnormals, infinities and NaN.     *)
(* Every +, -, * and / of the code is one operation rounded to nearest,    *)
(* ties to even (a product and the sum it feeds are rounded separately).   *)
(* TLC's integers are 32 bits wide, so significands are carried as         *)
(* sequences of 15-bit limbs.                                              *)
(***************************************************************************)
EXTENDS Integers, Sequences, FiniteSets, TLC

(***************************************************************************)
(* Bounds of the model.                                                    *)
(***************************************************************************)
MaxN == 3
MaxVal == 5
MaxDim == 3
MaxScale == 6

(***************************************************************************)
(* Natural numbers of any size, for the significands of doubles and the    *)
(* intermediate results of the operations on them: little-endian           *)
(* sequences of 15-bit limbs without leading zero limbs (zero is << >>).   *)
(***************************************************************************)
LimbBase == 2 ^ 15
LimbBits == 15

\* the number of bits of the integer n >= 0
RECURSIVE IntBitLen(_)
IntBitLen(n) == IF n = 0 THEN 0 ELSE 1 + IntBitLen(n \div 2)

\* x without its leading zero limbs
RECURSIVE BTrim(_)
BTrim(x) ==
    IF x = <<>> THEN x
    ELSE IF x[Len(x)] = 0 THEN BTrim(SubSeq(x, 1, Len(x) - 1)) ELSE x

\* the limbs of the integer n >= 0
RECURSIVE BFromInt(_)
BFromInt(n) == IF n = 0 THEN <<>> ELSE <<n % LimbBase>> \o BFromInt(n \div LimbBase)

\* x + y + c for a carry c
RECURSIVE BAddC(_, _, _)
BAddC(x, y, c) ==
    IF x = <<>> /\ y = <<>> THEN (IF c = 0 THEN <<>> ELSE <<c>>)
    ELSE LET t == (IF x = <<>> THEN 0 ELSE x[1]) + (IF y = <<>> THEN 0 ELSE y[1]) + c
         IN  <<t % LimbBase>> \o BAddC(IF x = <<>> THEN x ELSE Tail(x),
                                       IF y = <<>> THEN y ELSE Tail(y),
                                       t \div LimbBase)
BAdd(x, y) == BAddC(x, y, 0)

\* x - y - b for x >= y + b, not trimmed
RECURSIVE BSubB(_, _, _)
BSubB(x, y, b) ==
    IF x = <<>> THEN <<>>
    ELSE LET t == x[1] - (IF y = <<>> THEN 0 ELSE y[1]) - b
         IN  <<IF t < 0 THEN t + LimbBase ELSE t>>
             \o BSubB(Tail(x), IF y = <<>> THEN y ELSE Tail(y), IF t < 0 THEN 1 ELSE 0)
BSub(x, y) == BTrim(BSubB(x, y, 0))

\* -1, 0, 1 as x <, =, > y, comparing from limb i down
RECURSIVE BCmpFrom(_, _, _)
BCmpFrom(x, y, i) ==
    IF i = 0 THEN 0
    ELSE IF x[i] < y[i] THEN 0 - 1
    ELSE IF x[i] > y[i] THEN 1
    ELSE BCmpFrom(x, y, i - 1)
BCmp(x, y) ==
    IF Len(x) < Len(y) THEN 0 - 1
    ELSE IF Len(x) > Len(y) THEN 1
    ELSE BCmpFrom(x, y, Len(x))

\* x * d + c for a limb d and a carry c (leading zero limbs when d = 0)
RECURSIVE BMulSmall(_, _, _)
BMulSmall(x, d, c) ==
    IF x = <<>> THEN (IF c = 0 THEN <<>> ELSE <<c>>)
    ELSE LET t == x[1] * d + c
         IN  <<t % LimbBase>> \o BMulSmall(Tail(x), d, t \div LimbBase)

\* x * y, one row of the schoolbook product per limb of y
RECURSIVE BMulRows(_, _)
BMulRows(x, y) ==
    IF y = <<>> THEN <<>>
    ELSE BAdd(BMulSmall(x, y[1], 0), <<0>> \o BMulRows(x, Tail(y)))
BMul(x, y) == IF x = <<>> \/ y = <<>> THEN <<>> ELSE BTrim(BMulRows(x, y))

\* 10^k
RECURSIVE BPow10(_)
BPow10(k) == IF k = 0 THEN <<1>> ELSE BMulSmall(BPow10(k - 1), 10, 0)

\* x * 2^k
BShl(x, k) ==
    IF x = <<>> \/ k = 0 THEN x
    ELSE [i \in 1..(k \div LimbBits) |-> 0] \o BMulSmall(x, 2 ^ (k % LimbBits), 0)

\* floor(x / d) for 0 < d <= LimbBase, from limb i down with remainder r, not trimmed
RECURSIVE BDivSmallFrom(_, _, _, _)
BDivSmallFrom(x, d, i, r) ==
    IF i = 0 THEN <<>>
    ELSE LET cur == r * LimbBase + x[i]
         IN  BDivSmallFrom(x, d, i - 1, cur % d) \o <<cur \div d>>
BDivSmall(x, d) == BTrim(BDivSmallFrom(x, d, Len(x), 0))

\* floor(x / 2^k)
BShr(x, k) ==
    IF k \div LimbBits >= Len(x) THEN <<>>
    ELSE BDivSmall(SubSeq(x, (k \div LimbBits) + 1, Len(x)), 2 ^ (k % LimbBits))

\* the number of bits of x
BBitLen(x) == IF x = <<>> THEN 0 ELSE LimbBits * (Len(x) - 1) + IntBitLen(x[Len(x)])
BOdd(x) == x # <<>> /\ x[1] % 2 = 1
\* bit i of x, the lowest being bit 0
BBit(x, i) ==
    IF i \div LimbBits >= Len(x) THEN 0
    ELSE (x[(i \div LimbBits) + 1] \div 2 ^ (i % LimbBits)) % 2
\* the k lowest bits of x are all zero
BLowZero(x, k) ==
    /\ \A l \in 1..(k \div LimbBits) : l > Len(x) \/ x[l] = 0
    /\ k \div LimbBits >= Len(x) \/ x[(k \div LimbBits) + 1] % 2 ^ (k % LimbBits) = 0

\* A digit g >= 1 with d * g <= r, for r >= d: the leading limbs of r
\* divided by the leading limb of d plus one.
BDigitBelow(r, d) ==
    LET top == IF Len(r) > Len(d) THEN r[Len(d) + 1] * LimbBase + r[Len(d)]
               ELSE r[Len(d)]
        g == top \div (d[Len(d)] + 1)
    IN  IF g = 0 THEN 1 ELSE g

\* [q, r] with cur = q * d + r and 0 <= r < d, for a one-limb quotient; q is
\* the digit so far and r what it leaves of cur
RECURSIVE BDigit(_, _, _)
BDigit(r, d, q) ==
    IF BCmp(r, d) < 0 THEN [q |-> q, r |-> r]
    ELSE LET g == BDigitBelow(r, d)
         IN  BDigit(BSub(r, BMulSmall(d, g, 0)), d, q + g)

\* Long division of limbs i..1 of n by d # 0, with r the remainder so far
RECURSIVE BDivFrom(_, _, _, _)
BDivFrom(n, d, i, r) ==
    IF i = 0 THEN [q |-> <<>>, r |-> r]
    ELSE LET g == BDigit(BTrim(<<n[i]>> \o r), d, 0)
             rest == BDivFrom(n, d, i - 1, g.r)
         IN  [q |-> rest.q \o <<g.q>>, r |-> rest.r]

\* [q, r] with n = q * d + r, 0 <= r < d, for d # 0; both are scaled first
\* so that the leading limb of d is at least LimbBase / 2
BDivMod(n, d) ==
    LET k == LimbBits - IntBitLen(d[Len(d)])
        qr == BDivFrom(BShl(n, k), BShl(d, k), Len(BShl(n, k)), <<>>)
    IN  [q |-> BTrim(qr.q), r |-> BShr(qr.r, k)]

(***************************************************************************)
(* double: IEEE 754 binary64, round to nearest, ties to even.  A finite    *)
(* value is (-1)^s * m * 2^e with m < 2^53: m = 0 (and e = 0), or          *)
(* 2^52 <= m (normal, e >= MinExp), or e = MinExp (subnormal).             *)
(***************************************************************************)
MantBits == 53
MinExp == 0 - 1074
MaxExp == 971

Fin(s, m, e) == [k |-> "fin", s |-> s, m |-> m, e |-> e]
Inf(s) == [k |-> "inf", s |-> s, m |-> <<>>, e |-> 0]
NaN == [k |-> "nan", s |-> 0, m |-> <<>>, e |-> 0]
SignedZero(s) == Fin(s, <<>>, 0)
IsZero(x) == x.k = "fin" /\ x.m = <<>>

\* n without its sh >= 1 lowest bits, rounded to nearest, ties to even: one
\* is added when the first dropped bit is set and either a later one is, or
\* sticky (the value lies above n), or the kept part is odd.
RoundShift(n, sh, sticky) ==
    IF BBit(n, sh - 1) = 1 /\ (sticky \/ ~BLowZero(n, sh - 1) \/ BOdd(BShr(n, sh)))
    THEN BAdd(BShr(n, sh), <<1>>)
    ELSE BShr(n, sh)

\* (-1)^s * q * 2^e for a rounded q <= 2^53: q = 2^53 takes the next exponent
Carry(s, q, e) ==
    IF q = <<>> THEN SignedZero(s)
    ELSE IF BBitLen(q) > MantBits
    THEN (IF e + 1 > MaxExp THEN Inf(s) ELSE Fin(s, BShr(q, 1), e + 1))
    ELSE Fin(s, q, e)

\* Pack for n of bl bits: sh bits of n are dropped, as many as leave 53, or
\* more when the exponent would fall below MinExp.
PackBits(s, n, e, sticky, bl, sh) ==
    IF e + bl - 1 > MaxExp + MantBits - 1 THEN Inf(s)
    ELSE IF sh <= 0 THEN Fin(s, BShl(n, 0 - sh), e + sh)
    ELSE Carry(s, RoundShift(n, sh, sticky), e + sh)

\* The double nearest (-1)^s * (n + d) * 2^e, where 0 <= d < 1 and d > 0
\* exactly when sticky; with sticky, n holds at least 55 bits.
Pack(s, n, e, sticky) ==
    IF n = <<>> THEN SignedZero(s)
    ELSE PackBits(s, n, e, sticky, BBitLen(n),
                  IF e + BBitLen(n) - MantBits < MinExp THEN MinExp - e
                  ELSE BBitLen(n) - MantBits)

\* (double)k for an int k
FromInt(k) == Pack(IF k < 0 THEN 1 ELSE 0, BFromInt(IF k < 0 THEN 0 - k ELSE k), 0, FALSE)

\* The double nearest (-1)^s * n / d * 2^e for n, d # 0: the quotient is
\* computed to at least 55 bits and the remainder decides sticky.
PackDivMod(s, qr, e) == Pack(s, qr.q, e, qr.r # <<>>)
PackQuotient(s, n, d, e, shift) == PackDivMod(s, BDivMod(BShl(n, shift), d), e - shift)
QuotientShift(n, d) == BBitLen(d) - BBitLen(n) + MantBits + 3

\* The double a decimal literal or scanf("%lf") yields for k * 10^p.
FromDecimal(k, p) ==
    LET s == IF k < 0 THEN 1 ELSE 0
        n == BFromInt(IF k < 0 THEN 0 - k ELSE k)
    IN  IF n = <<>> THEN SignedZero(s)
        ELSE IF p >= 0 THEN Pack(s, BMul(n, BPow10(p)), 0, FALSE)
        ELSE PackQuotient(s, n, BPow10(0 - p), 0, QuotientShift(n, BPow10(0 - p)))

Zero == SignedZero(0)
One == FromInt(1)

RNeg(x) == IF x.k = "nan" THEN x ELSE [x EXCEPT !.s = 1 - x.s]
fabs(x) == IF x.k = "nan" THEN x ELSE [x EXCEPT !.s = 0]

\* -1, 0, 1 as |x| <, =, > |y| for x, y not NaN
CmpMag(x, y) ==
    IF x.k = "inf" THEN (IF y.k = "inf" THEN 0 ELSE 1)
    ELSE IF y.k = "inf" THEN 0 - 1
    ELSE IF x.m = <<>> THEN (IF y.m = <<>> THEN 0 ELSE 0 - 1)
    ELSE IF y.m = <<>> THEN 1
    ELSE IF x.e < y.e THEN 0 - 1
    ELSE IF x.e > y.e THEN 1
    ELSE BCmp(x.m, y.m)

\* x < y
RLt(x, y) ==
    IF x.k = "nan" \/ y.k = "nan" THEN FALSE
    ELSE IF IsZero(x) /\ IsZero(y) THEN FALSE
    ELSE IF x.s # y.s THEN x.s = 1
    ELSE IF x.s = 0 THEN CmpMag(x, y) < 0 ELSE CmpMag(x, y) > 0

RMul(x, y) ==
    IF x.k = "nan" \/ y.k = "nan" THEN NaN
    ELSE IF x.k = "inf" \/ y.k = "inf"
    THEN (IF IsZero(x) \/ IsZero(y) THEN NaN ELSE Inf((x.s + y.s) % 2))
    ELSE Pack((x.s + y.s) % 2, BMul(x.m, y.m), x.e + y.e, FALSE)

RDiv(x, y) ==
    IF x.k = "nan" \/ y.k = "nan" THEN NaN
    ELSE IF x.k = "inf" THEN (IF y.k = "inf" THEN NaN ELSE Inf((x.s + y.s) % 2))
    ELSE IF y.k = "inf" THEN SignedZero((x.s + y.s) % 2)
    ELSE IF IsZero(y) THEN (IF IsZero(x) THEN NaN ELSE Inf((x.s + y.s) % 2))
    ELSE IF IsZero(x) THEN SignedZero((x.s + y.s) % 2)
    ELSE PackQuotient((x.s + y.s) % 2, x.m, y.m, x.e - y.e, QuotientShift(x.m, y.m))

\* (-1)^xs * xm * 2^e + (-1)^ys * ym * 2^e, where sticky says that the
\* second term stands for a non-zero value below one unit of xm
AddMagnitudes(xs, xm, ys, ym, e, sticky) ==
    IF xs = ys THEN Pack(xs, BAdd(xm, ym), e, sticky)
    ELSE IF BCmp(xm, ym) = 0 THEN Zero
    ELSE Pack(IF BCmp(xm, ym) > 0 THEN xs ELSE ys,
              IF BCmp(xm, ym) > 0 THEN BSub(xm, ym) ELSE BSub(ym, xm), e, sticky)

\* x + y for finite non-zero x, y with x.e >= y.e; when the exponents are
\* more than MantBits + 11 apart y only decides the direction of rounding.
AddAligned(x, y) ==
    IF x.e - y.e > MantBits + 11
    THEN AddMagnitudes(x.s, BShl(x.m, 3), y.s, IF x.s = y.s THEN <<>> ELSE <<1>>,
                       x.e - 3, TRUE)
    ELSE AddMagnitudes(x.s, BShl(x.m, x.e - y.e), y.s, y.m, y.e, FALSE)

RAdd(x, y) ==
    IF x.k = "nan" \/ y.k = "nan" THEN NaN
    ELSE IF x.k = "inf" THEN (IF y.k = "inf" /\ x.s # y.s THEN NaN ELSE x)
    ELSE IF y.k = "inf" THEN y
    ELSE IF IsZero(x) THEN (IF IsZero(y) THEN SignedZero(IF x.s = 1 /\ y.s = 1 THEN 1 ELSE 0) ELSE y)
    ELSE IF IsZero(y) THEN x
    ELSE AddAligned(IF x.e >= y.e THEN x ELSE y, IF x.e >= y.e THEN y ELSE x)

RSub(x, y) == RAdd(x, RNeg(y))

\* #define EPS 1e-12
EPS == FromDecimal(1, 0 - 12)

(***************************************************************************)
(* size_t: 64 bits, little-endian sequences of 8 bytes (TLC's integers are *)
(* 32 bits wide, so the width is kept by carrying the bytes).              *)
(***************************************************************************)
SizeBytes == 8

\* The low `len` bytes of the natural number n, least significant first.
RECURSIVE ToBytes(_, _)
ToBytes(n, len) ==
    IF len = 0 THEN <<>> ELSE <<n % 256>> \o ToBytes(n \div 256, len - 1)

ToSz(n) == ToBytes(n, SizeBytes)

\* Column k of the schoolbook product of the byte strings p and q.
RECURSIVE ColumnSum(_, _, _, _)
ColumnSum(p, q, k, i) ==
    IF i > k \/ i >= Len(p) THEN 0
    ELSE (IF k - i < Len(q) THEN p[i + 1] * q[k - i + 1] ELSE 0)
         + ColumnSum(p, q, k, i + 1)

\* The low `len` bytes of p * q, from column k on with the carry so far.
RECURSIVE MulBytes(_, _, _, _, _)
MulBytes(p, q, k, carry, len) ==
    IF k = len THEN <<>>
    ELSE LET t == ColumnSum(p, q, k, 0) + carry
         IN  <<t % 256>> \o MulBytes(p, q, k + 1, t \div 256, len)

\* rows * cols as the C expression computes it: modulo 2^64.
SzMul(p, q) == MulBytes(p, q, 0, 0, SizeBytes)
\* rows * cols as a number: all 128 bits of it.
WideMul(p, q) == MulBytes(p, q, 0, 0, 2 * SizeBytes)

\* The value of a size_t below 2^24 (a buffer length of the small matrices).
FromSz(p) == p[1] + 256 * p[2] + 65536 * p[3]

(***************************************************************************)
(* Matrix: rows, cols and the row-major buffer data[i*cols + j].  A        *)
(* pointer is NULL or the object it points to.                             *)
(***************************************************************************)
NULL == [null |-> TRUE]
IsNull(p) == "null" \in DOMAIN p

\* calloc(nmemb, sizeof(double)): NULL when nmemb * 8 does not fit size_t or
\* the allocator has no memory (ok = FALSE), else a buffer of nmemb elements.
\* A request of zero bytes may return either; ok chooses.
calloc(nmemb, ok) ==
    IF nmemb[SizeBytes] >= 32 \/ ~ok THEN NULL
    ELSE [len |-> nmemb]

\* Matrix *matrix_create(size_t rows, size_t cols); mOK, dOK: whether
\* malloc(sizeof(Matrix)) and calloc(rows * cols, ...) find memory.
matrix_create(rows, cols, mOK, dOK) ==
    IF ~mOK THEN NULL
    ELSE LET buf == calloc(SzMul(rows, cols), dOK)
         IN  IF IsNull(buf) THEN NULL
             ELSE [rows |-> rows, cols |-> cols, len |-> buf.len]

\* matrix_create on the small sizes of the matrices computed with: the
\* zero-filled rows x cols Matrix, sizes as numbers.
NewMatrix(rows, cols, ok) ==
    LET m == matrix_create(ToSz(rows), ToSz(cols), ok, ok)
    IN  IF IsNull(m) THEN NULL
        ELSE [rows |-> rows, cols |-> cols,
              data |-> [k \in 0..(FromSz(m.len) - 1) |-> Zero]]

\* double matrix_get(const Matrix *m, size_t i, size_t j)
matrix_get(m, i, j) == m.data[i * m.cols + j]

\* Matrix *matrix_transpose(const Matrix *a)
matrix_transpose(a, ok) ==
    LET t == NewMatrix(a.cols, a.rows, ok)
    IN  IF IsNull(t) THEN NULL
        ELSE [t EXCEPT !.data = [k \in DOMAIN t.data |->
                  matrix_get(a, k % t.cols, k \div t.cols)]]

\* c[i][j] after the k loop has added a[i][k] * b[k][j] for k = 0 .. upto-1.
RECURSIVE DotProduct(_, _, _, _, _)
DotProduct(a, b, i, j, upto) ==
    IF upto = 0 THEN Zero
    ELSE RAdd(DotProduct(a, b, i, j, upto - 1),
              RMul(matrix_get(a, i, upto - 1), matrix_get(b, upto - 1, j)))

\* Matrix *matrix_multiply(const Matrix *a, const Matrix *b)
matrix_multiply(a, b, ok) ==
    IF IsNull(a) \/ IsNull(b) THEN NULL
    ELSE IF a.cols # b.rows THEN NULL
    ELSE LET c == NewMatrix(a.rows, b.cols, ok)
         IN  IF IsNull(c) THEN NULL
             ELSE [c EXCEPT !.data = [k \in DOMAIN c.data |->
                       DotProduct(a, b, k \div c.cols, k % c.cols, a.cols)]]

(***************************************************************************)
(* Row reduction, shared shape of matrix_determinant and matrix_inverse.   *)
(* A working buffer is a function on 0 .. n*stride-1.                      *)
(***************************************************************************)
\* The pivot search: piv starts at i and moves to row r when
\* fabs(buf[r][i]) > fabs(buf[piv][i]), r = i .. n-1.
RECURSIVE PivotScan(_, _, _, _, _, _)
PivotScan(buf, stride, n, i, r, piv) ==
    IF r >= n THEN piv
    ELSE PivotScan(buf, stride, n, i, r + 1,
             IF RLt(fabs(buf[piv * stride + i]), fabs(buf[r * stride + i]))
             THEN r ELSE piv)

PivotRow(buf, stride, n, i) == PivotScan(buf, stride, n, i, i, i)

\* swap rows i and piv: the loop over the columns, from column c on
RECURSIVE SwapRows(_, _, _, _, _)
SwapRows(buf, stride, i, piv, c) ==
    IF c >= stride THEN buf
    ELSE SwapRows([buf EXCEPT ![i * stride + c] = buf[piv * stride + c],
                              ![piv * stride + c] = buf[i * stride + c]],
                  stride, i, piv, c + 1)

\* buf[r][c] -= factor * buf[i][c]: the loop over the columns, from column c on
RECURSIVE SubtractRow(_, _, _, _, _, _)
SubtractRow(buf, stride, r, i, factor, c) ==
    IF c >= stride THEN buf
    ELSE SubtractRow([buf EXCEPT ![r * stride + c] =
                         RSub(buf[r * stride + c], RMul(factor, buf[i * stride + c]))],
                     stride, r, i, factor, c + 1)

\* matrix_determinant's elimination, from row r on (r = i + 1 at first):
\* factor = mat[r][i] / pivot and mat[r][c] -= factor * mat[i][c] for c >= i.
RECURSIVE EliminateBelow(_, _, _, _, _)
EliminateBelow(mat, n, i, pivot, r) ==
    IF r >= n THEN mat
    ELSE EliminateBelow(SubtractRow(mat, n, r, i, RDiv(mat[r * n + i], pivot), i),
                        n, i, pivot, r + 1)

\* The loop of matrix_determinant from column i on.  mem is the memory the
\* call touches: the buffers (the caller's a->data, the working copy) and
\* the pointer mat.  broke: the loop was left by the break of the pivot test.
RECURSIVE DetLoop(_, _, _, _, _)
DetLoop(mem, n, i, det, sign) ==
    IF i >= n THEN [mem |-> mem, det |-> det, sign |-> sign, broke |-> FALSE]
    ELSE LET mat == mem.heap[mem.p]
             piv == PivotRow(mat, n, n, i)
         IN  IF RLt(fabs(mat[piv * n + i]), EPS)
             THEN [mem |-> mem, det |-> Zero, sign |-> sign, broke |-> TRUE]
             ELSE LET swapped == IF piv # i THEN SwapRows(mat, n, i, piv, 0) ELSE mat
                      pivot == swapped[i * n + i]
                  IN  DetLoop([mem EXCEPT !.heap[mem.p] =
                                  EliminateBelow(swapped, n, i, pivot, i + 1)],
                              n, i + 1, RMul(det, pivot),
                              IF piv # i THEN 0 - sign ELSE sign)

\* mat = malloc(n * n * sizeof(double)); memcpy(mat, a->data, ...), with the
\* pointer aimed at the caller's buffer instead of the copy.
WorkingCopyAliased(a) == [heap |-> [a |-> a.data, mat |-> a.data], p |-> "a"]
\* mat = malloc(n * n * sizeof(double)); memcpy(mat, a->data, ...)
WorkingCopy(a) == [heap |-> [a |-> a.data, mat |-> a.data], p |-> "mat"]

\* double det = 1.0, started at 0.0 instead
DetInitZero == Zero
\* double det = 1.0
DetInit == One

\* det *= sign left out
DetTimesSignDropped(det, sign) == det
\* det *= sign
DetTimesSign(det, sign) == RMul(det, FromInt(sign))

\* The end of matrix_determinant once the loop has left run: det *= sign;
\* free(mat); return det.
DetReturn(a, run) ==
    [ret |-> DetTimesSign(run.det, run.sign),
     a |-> [a EXCEPT !.data = run.mem.heap.a],
     mallocs |-> 1, frees |-> 1, diag |-> FALSE, broke |-> run.broke]

\* double matrix_determinant(const Matrix *a); mallocOK: whether malloc of the
\* working copy returns a buffer.  The result holds the value returned, the
\* caller's matrix as the call leaves it, the number of working buffers
\* allocated and freed, whether the diagnostic was printed, and whether the
\* loop was left by the break of the pivot test.
matrix_determinant(a, mallocOK) ==
    IF IsNull(a)
    THEN [ret |-> Zero, a |-> a, mallocs |-> 0, frees |-> 0, diag |-> FALSE, broke |-> FALSE]
    ELSE IF a.rows # a.cols
    THEN [ret |-> Zero, a |-> a, mallocs |-> 0, frees |-> 0, diag |-> TRUE, broke |-> FALSE]
    ELSE IF ~mallocOK
    THEN [ret |-> Zero, a |-> a, mallocs |-> 0, frees |-> 0, diag |-> FALSE, broke |-> FALSE]
    ELSE DetReturn(a, DetLoop(WorkingCopy(a), a.rows, 0, DetInit, 1))

\* The augmented buffer [A | I] that matrix_inverse fills: n rows of 2n.
Augmented(a, n) ==
    [k \in 0..(n * 2 * n - 1) |->
        LET i == k \div (2 * n)
            c == k % (2 * n)
        IN  IF c < n THEN matrix_get(a, i, c)
            ELSE IF c - n = i THEN One ELSE Zero]

\* normalize row i: E[i][c] /= div, the loop over the 2n columns from c on
RECURSIVE NormalizeRow(_, _, _, _, _)
NormalizeRow(E, n, i, div, c) ==
    IF c >= 2 * n THEN E
    ELSE NormalizeRow([E EXCEPT ![i * (2 * n) + c] = RDiv(E[i * (2 * n) + c], div)],
                      n, i, div, c + 1)

\* eliminate other rows, from row r on: row i is passed over; factor = E[r][i],
\* the row is passed over when fabs(factor) < EPS, else
\* E[r][c] -= factor * E[i][c] for all 2n columns.
RECURSIVE EliminateOthers(_, _, _, _)
EliminateOthers(E, n, i, r) ==
    IF r >= n THEN E
    ELSE EliminateOthers(
             IF r = i \/ RLt(fabs(E[r * (2 * n) + i]), EPS) THEN E
             ELSE SubtractRow(E, 2 * n, r, i, E[r * (2 * n) + i], 0),
             n, i, r + 1)

\* The loop of matrix_inverse from column i on; singular: left through the
\* pivot test's free(E); return NULL.
RECURSIVE InvLoop(_, _, _)
InvLoop(mem, n, i) ==
    IF i >= n THEN [mem |-> mem, singular |-> FALSE]
    ELSE LET E == mem.heap[mem.p]
             piv == PivotRow(E, 2 * n, n, i)
         IN  IF RLt(fabs(E[piv * (2 * n) + i]), EPS)
             THEN [mem |-> mem, singular |-> TRUE]
             ELSE LET swapped == IF piv # i THEN SwapRows(E, 2 * n, i, piv, 0) ELSE E
                      div == swapped[i * (2 * n) + i]
                  IN  InvLoop([mem EXCEPT !.heap[mem.p] =
                                  EliminateOthers(NormalizeRow(swapped, n, i, div, 0), n, i, 0)],
                              n, i + 1)

\* if (fabs(E[piv][i]) < EPS) { return NULL; } with free(E) left out
SingularExitLeaking(after) ==
    [ret |-> NULL, a |-> after, mallocs |-> 1, frees |-> 0, diag |-> FALSE]
\* if (fabs(E[piv][i]) < EPS) { free(E); return NULL; }
SingularExit(after) ==
    [ret |-> NULL, a |-> after, mallocs |-> 1, frees |-> 1, diag |-> FALSE]

\* The end of matrix_inverse once the loop has left run: the singular exit,
\* or inv = matrix_create(n, n) and, when that fails, free(E); return NULL,
\* else the right half of E copied into inv.
InvReturn(a, n, run, inv) ==
    LET E == run.mem.heap.E
        after == [a EXCEPT !.data = run.mem.heap.a]
    IN  IF run.singular THEN SingularExit(after)
        ELSE IF IsNull(inv)
        THEN [ret |-> NULL, a |-> after, mallocs |-> 1, frees |-> 1, diag |-> FALSE]
        ELSE [ret |-> [inv EXCEPT !.data = [k \in DOMAIN inv.data |->
                           E[(k \div n) * (2 * n) + (n + (k % n))]]],
              a |-> after, mallocs |-> 1, frees |-> 1, diag |-> FALSE]

\* Matrix *matrix_inverse(const Matrix *a); mallocOK: whether malloc of E
\* returns a buffer, createOK: whether matrix_create(n, n) does.
matrix_inverse(a, mallocOK, createOK) ==
    IF IsNull(a) THEN [ret |-> NULL, a |-> a, mallocs |-> 0, frees |-> 0, diag |-> FALSE]
    ELSE IF a.rows # a.cols
    THEN [ret |-> NULL, a |-> a, mallocs |-> 0, frees |-> 0, diag |-> TRUE]
    ELSE IF ~mallocOK
    THEN [ret |-> NULL, a |-> a, mallocs |-> 0, frees |-> 0, diag |-> FALSE]
    ELSE InvReturn(a, a.rows,
                   InvLoop([heap |-> [a |-> a.data, E |-> Augmented(a, a.rows)], p |-> "E"],
                           a.rows, 0),
                   NewMatrix(a.rows, a.rows, createOK))

(***************************************************************************)
(* The inputs: square matrices of order 0 .. MaxN and the 1 x 2 and 2 x 1  *)
(* shapes.  Entries of orders up to 2 are the integers -1 .. MaxVal, or    *)
(* the doubles read from 0, 5e-13, 2e-12 and 8e-12, magnitudes on both     *)
(* sides of EPS; larger orders are the tridiagonal matrices of entries 0   *)
(* and 1, and the singular [[1,2,3],[4,5,6],[7,8,9]] times 10^k for        *)
(* k = 0 .. MaxScale, on which the rounding of the elimination shows.      *)
(* [[4,3],[6,3]] is the matrix of the documented example.                  *)
(***************************************************************************)
TinyVals == {0, 5, 20, 80}
Entries == {FromInt(v) : v \in (0 - 1)..MaxVal}
TinyEntries == {FromDecimal(v, 0 - 13) : v \in TinyVals}

Mat(r, c, d) == [rows |-> r, cols |-> c, data |-> d]
Band(n) == {k \in 0..(n * n - 1) : (k \div n) - (k % n) \in {0 - 1, 0, 1}}
Banded(n) ==
    {Mat(n, n, [k \in 0..(n * n - 1) |-> IF k \in Band(n) THEN f[k] ELSE Zero]) :
        f \in [Band(n) -> {Zero, One}]}
Dense(r, c, vals) == {Mat(r, c, d) : d \in [0..(r * c - 1) -> vals]}

M4363 == Mat(2, 2, [k \in 0..3 |-> FromInt(<<4, 3, 6, 3>>[k + 1])])
Ramp(k) == Mat(3, 3, [i \in 0..8 |-> FromDecimal(i + 1, k)])

Inputs ==
    UNION {IF n <= 2 THEN Dense(n, n, Entries) \cup Dense(n, n, TinyEntries)
           ELSE Banded(n) : n \in 0..MaxN}
    \cup Dense(1, 2, Entries) \cup Dense(2, 1, Entries)
    \cup {Ramp(k) : k \in 0..MaxScale}
    \cup {M4363}

\* The size_t values handed to matrix_create: the small ones and values
\* whose product does not fit 64 bits (2^32, 2^61, 2^63 + 1, 2^64 - 1).
SizeInputs ==
    {ToSz(n) : n \in 0..MaxDim}
    \cup {<<0, 0, 0, 0, 1, 0, 0, 0>>, <<0, 0, 0, 0, 0, 0, 0, 32>>,
          <<1, 0, 0, 0, 0, 0, 0, 128>>, <<255, 255, 255, 255, 255, 255, 255, 255>>}

(***************************************************************************)
(* The state.                                                              *)
(***************************************************************************)
VARIABLES
    \* one call of a routine on the caller's matrix, and the product the
    \* caller may form with the matrix the call returned
    a,      \* the caller's matrix, as the last call left it
    a0,     \* the caller's matrix as it was handed to the call
    op,     \* the routine last called: "none" before any call
    args,   \* what the allocator answered during the call
    ret,    \* the result of the call
    prod,   \* matrix_multiply(a, ret.ret) once computed
    \* one call of matrix_create
    crows,  \* the argument rows
    ccols,  \* the argument cols
    cres,   \* [called, m]: m the Matrix returned, or NULL
    \* the menu loop of main
    M,      \* the current-matrix pointer: NULL or [id, rows, cols]
    heap,   \* [live, freedTwice, usedAfterFree]: the ids of the matrices
            \* allocated and not freed, and whether a freed matrix was
            \* freed again or read
    pc,     \* "menu" in the loop, "exited" after return 0
    opt     \* the menu option last handled

numVars == <<a, a0, op, args, ret, prod>>
createVars == <<crows, ccols, cres>>
menuVars == <<M, heap, pc, opt>>
vars == <<a, a0, op, args, ret, prod, crows, ccols, cres, M, heap, pc, opt>>

NoArgs == [mallocOK |-> TRUE, createOK |-> TRUE]
NoRet == [ret |-> NULL]
NoProd == [done |-> FALSE, ret |-> NULL]
NoCall == [called |-> FALSE, m |-> NULL]
EmptyHeap == [live |-> {}, freedTwice |-> FALSE, usedAfterFree |-> FALSE]

NumIdle ==
    /\ a = Mat(0, 0, <<>>)
    /\ a0 = a
    /\ op = "none"
    /\ args = NoArgs
    /\ ret = NoRet
    /\ prod = NoProd
CreateIdle ==
    /\ crows = ToSz(0)
    /\ ccols = ToSz(0)
    /\ cres = NoCall
MenuIdle ==
    /\ M = NULL
    /\ heap = EmptyHeap
    /\ pc = "menu"
    /\ opt = 0 - 1

(***************************************************************************)
(* Spec: the routines of the library, each called directly on the caller's *)
(* matrix (square or not), with the allocator's answers chosen freely.     *)
(* The menu of main, which calls the determinant and the inverse on square *)
(* matrices only, is SpecMenu below.                                       *)
(***************************************************************************)
Init ==
    /\ a \in Inputs
    /\ a0 = a
    /\ op = "none"
    /\ args = NoArgs
    /\ ret = NoRet
    /\ prod = NoProd
    /\ CreateIdle
    /\ MenuIdle

\* one call matrix_determinant(a)
Determinant ==
    /\ op = "none"
    /\ \E mallocOK \in BOOLEAN :
         /\ ret' = matrix_determinant(a, mallocOK)
         /\ a' = ret'.a
         /\ args' = [NoArgs EXCEPT !.mallocOK = mallocOK]
    /\ op' = "determinant"
    /\ UNCHANGED <<a0, prod, createVars, menuVars>>

\* one call matrix_inverse(a)
Inverse ==
    /\ op = "none"
    /\ \E mallocOK \in BOOLEAN, createOK \in BOOLEAN :
         /\ ret' = matrix_inverse(a, mallocOK, createOK)
         /\ a' = ret'.a
         /\ args' = [mallocOK |-> mallocOK, createOK |-> createOK]
    /\ op' = "inverse"
    /\ UNCHANGED <<a0, prod, createVars, menuVars>>

\* one call matrix_transpose(a)
Transpose ==
    /\ op = "none"
    /\ \E createOK \in BOOLEAN :
         /\ ret' = [ret |-> matrix_transpose(a, createOK)]
         /\ args' = [NoArgs EXCEPT !.createOK = createOK]
    /\ op' = "transpose"
    /\ UNCHANGED <<a, a0, prod, createVars, menuVars>>

\* one call matrix_multiply(a, b) with b the matrix the last call returned
\* (NULL when it failed: matrix_multiply then returns NULL); memory for the
\* product is found.
Multiply ==
    /\ op \in {"inverse", "transpose"}
    /\ ~prod.done
    /\ prod' = [done |-> TRUE, ret |-> matrix_multiply(a, ret.ret, TRUE)]
    /\ UNCHANGED <<a, a0, op, args, ret, createVars, menuVars>>

\* matrix_free of the matrices the calls returned; the caller's matrix stays.
Discard ==
    /\ op # "none"
    /\ op' = "none"
    /\ args' = NoArgs
    /\ ret' = NoRet
    /\ prod' = NoProd
    /\ a0' = a
    /\ UNCHANGED <<a, createVars, menuVars>>

Next == Determinant \/ Inverse \/ Transpose \/ Multiply \/ Discard
Spec == Init /\ [][Next]_vars

(***************************************************************************)
(* SpecCreate: matrix_create called on the size_t inputs.                  *)
(***************************************************************************)
InitCreate ==
    /\ crows \in SizeInputs
    /\ ccols \in SizeInputs
    /\ cres = NoCall
    /\ NumIdle
    /\ MenuIdle

\* m = matrix_create(rows, cols)
Create ==
    /\ ~cres.called
    /\ \E mOK \in BOOLEAN, dOK \in BOOLEAN :
         cres' = [called |-> TRUE, m |-> matrix_create(crows, ccols, mOK, dOK)]
    /\ UNCHANGED <<crows, ccols, numVars, menuVars>>

\* matrix_free(m)
Release ==
    /\ cres.called
    /\ cres' = NoCall
    /\ UNCHANGED <<crows, ccols, numVars, menuVars>>

NextCreate == Create \/ Release
SpecCreate == InitCreate /\ [][NextCreate]_vars

(***************************************************************************)
(* SpecMenu: the menu loop of main.  A Matrix (the struct and its data) is *)
(* one heap object with an id; the entries play no part here, the shapes   *)
(* decide which operations succeed.                                        *)
(***************************************************************************)
Dims == 0..MaxDim

\* An id no live matrix and no pointer in `held` carries.
FreshId(h, held) ==
    LET used == h.live \cup {q.id : q \in {q \in held : ~IsNull(q)}}
    IN  CHOOSE id \in 1..(Cardinality(used) + 1) : id \notin used

\* matrix_create(r, c) from the menu: a new live matrix, or NULL with nothing
\* left allocated (malloc failed, or calloc failed and the struct was freed).
MenuCreate(h, held, r, c, ok) ==
    IF ok
    THEN LET id == FreshId(h, held)
         IN  [h |-> [h EXCEPT !.live = h.live \cup {id}],
              m |-> [id |-> id, rows |-> r, cols |-> c]]
    ELSE [h |-> h, m |-> NULL]

\* void matrix_free(Matrix *m)
matrix_free(h, m) ==
    IF IsNull(m) THEN h
    ELSE IF m.id \in h.live THEN [h EXCEPT !.live = h.live \ {m.id}]
    ELSE [h EXCEPT !.freedTwice = TRUE]

\* a read of *m (matrix_print, an operand of an operation, M->rows)
Deref(h, m) ==
    IF m.id \in h.live THEN h ELSE [h EXCEPT !.usedAfterFree = TRUE]

\* matrix_load_txt: the matrix, or NULL; "short": the matrix was created and
\* freed again when the file held too few numbers.
Load(h, held, r, c, how) ==
    IF how = "ok" THEN MenuCreate(h, held, r, c, TRUE)
    ELSE IF how = "short"
    THEN LET made == MenuCreate(h, held, r, c, TRUE)
         IN  [h |-> matrix_free(made.h, made.m), m |-> NULL]
    ELSE [h |-> h, m |-> NULL]

Sources == {"manual", "random", "load"}
Hows == {"ok", "nomem", "nofile", "badheader", "short"}

\* ask_create_manual, ask_create_random, ask_load_file: how = "ok" or the
\* failure met ("nomem" for the two that create, any failure of the load).
Ask(h, held, src, r, c, how) ==
    IF src = "load" THEN Load(h, held, r, c, how)
    ELSE MenuCreate(h, held, r, c, how = "ok")

\* if (M) { matrix_free(M); } with M = NULL left out
FreeCurrentDangling(h, m) == [h |-> matrix_free(h, m), m |-> m]
\* if (M) { matrix_free(M); M = NULL; }
FreeCurrent(h, m) == [h |-> matrix_free(h, m), m |-> NULL]

InitMenu ==
    /\ M = NULL
    /\ heap = EmptyHeap
    /\ pc = "menu"
    /\ opt = 0 - 1
    /\ NumIdle
    /\ CreateIdle

\* cases 1, 2, 3: the current matrix is freed, then replaced by what
\* ask_create_manual, ask_create_random or ask_load_file returns.
Replace ==
    /\ pc = "menu"
    /\ \E src \in Sources, r \in Dims, c \in Dims, how \in Hows :
         LET freed == FreeCurrent(heap, M)
             made == Ask(freed.h, {freed.m}, src, r, c, how)
         IN  /\ src # "load" => how \in {"ok", "nomem"}
             /\ heap' = made.h
             /\ M' = made.m
             /\ opt' = CASE src = "manual" -> 1 [] src = "random" -> 2 [] OTHER -> 3
    /\ UNCHANGED <<pc, numVars, createVars>>

\* cases 4, 5: matrix_print(M) or ask_save_file(M) when there is a matrix.
ShowOrSave ==
    /\ pc = "menu"
    /\ heap' = IF IsNull(M) THEN heap ELSE Deref(heap, M)
    /\ opt' \in {4, 5}
    /\ UNCHANGED <<M, pc, numVars, createVars>>

\* cases 6, 7, 8: B = ask_other_matrix_for_operation(); C = M op B; C is
\* printed and freed when the operation succeeded; B is freed.
Binary ==
    /\ pc = "menu"
    /\ \E o \in {6, 7, 8}, choice \in Sources \cup {"cancel"},
          r \in Dims, c \in Dims, how \in Hows, cOK \in BOOLEAN :
         /\ choice # "load" => how \in {"ok", "nomem"}
         /\ opt' = o
         /\ IF IsNull(M) THEN heap' = heap
            ELSE LET B == IF choice = "cancel" THEN [h |-> heap, m |-> NULL]
                          ELSE Ask(heap, {M}, choice, r, c, how)
                 IN  IF IsNull(B.m) THEN heap' = B.h
                     ELSE LET read == Deref(Deref(B.h, M), B.m)
                              fits == IF o = 8 THEN M.cols = B.m.rows
                                      ELSE M.rows = B.m.rows /\ M.cols = B.m.cols
                              C == IF fits
                                   THEN MenuCreate(read, {M, B.m}, M.rows, B.m.cols, cOK)
                                   ELSE [h |-> read, m |-> NULL]
                              shown == IF IsNull(C.m) THEN C.h
                                       ELSE matrix_free(Deref(C.h, C.m), C.m)
                          IN  heap' = matrix_free(shown, B.m)
    /\ UNCHANGED <<M, pc, numVars, createVars>>

\* case 9: T = matrix_transpose(M); on success M is freed and M = T.
TransposeCurrent ==
    /\ pc = "menu"
    /\ opt' = 9
    /\ \E tOK \in BOOLEAN :
         IF IsNull(M) THEN UNCHANGED <<M, heap>>
         ELSE LET T == MenuCreate(Deref(heap, M), {M}, M.cols, M.rows, tOK)
              IN  IF IsNull(T.m) THEN M' = M /\ heap' = T.h
                  ELSE /\ heap' = Deref(matrix_free(T.h, M), T.m)
                       /\ M' = T.m
    /\ UNCHANGED <<pc, numVars, createVars>>

\* case 10: M->rows and M->cols are read, then matrix_determinant(M), which
\* leaves no Matrix behind.
DeterminantOfCurrent ==
    /\ pc = "menu"
    /\ opt' = 10
    /\ heap' = IF IsNull(M) THEN heap ELSE Deref(heap, M)
    /\ UNCHANGED <<M, pc, numVars, createVars>>

\* case 11: inv = matrix_inverse(M) for a square M; inv is printed and freed
\* when one is returned (invOK: the matrix is regular and memory was found).
InverseOfCurrent ==
    /\ pc = "menu"
    /\ opt' = 11
    /\ \E invOK \in BOOLEAN :
         IF IsNull(M) THEN heap' = heap
         ELSE IF M.rows # M.cols THEN heap' = Deref(heap, M)
         ELSE LET inv == MenuCreate(Deref(heap, M), {M}, M.rows, M.rows, invOK)
              IN  heap' = IF IsNull(inv.m) THEN inv.h
                          ELSE matrix_free(Deref(inv.h, inv.m), inv.m)
    /\ UNCHANGED <<M, pc, numVars, createVars>>

\* case 12: the current matrix is freed and M set to NULL.
FreeCurrentMatrix ==
    /\ pc = "menu"
    /\ opt' = 12
    /\ LET freed == FreeCurrent(heap, M)
       IN  heap' = freed.h /\ M' = freed.m
    /\ UNCHANGED <<pc, numVars, createVars>>

\* default, or input that is no number: nothing is touched.
UnknownOption ==
    /\ pc = "menu"
    /\ opt' = 13
    /\ UNCHANGED <<M, heap, pc, numVars, createVars>>

\* case 0: running = 0; after the loop if (M) matrix_free(M); return 0.
Exit ==
    /\ pc = "menu"
    /\ opt' = 0
    /\ heap' = matrix_free(heap, M)
    /\ pc' = "exited"
    /\ UNCHANGED <<M, numVars, createVars>>

NextMenu ==
    \/ Replace \/ ShowOrSave \/ Binary \/ TransposeCurrent
    \/ DeterminantOfCurrent \/ InverseOfCurrent \/ FreeCurrentMatrix
    \/ UnknownOption \/ Exit
SpecMenu == InitMenu /\ [][NextMenu]_vars
(***************************************************************************)
(* Reference notions the claims are stated with.  They are computed        *)
(* without rounding, on exact numbers (-1)^s * m * 2^e with m of any size. *)
(***************************************************************************)
\* the exact value of a finite double
XOf(x) == [s |-> x.s, m |-> x.m, e |-> x.e]
XIsZero(x) == x.m = <<>>
XNeg(x) == [x EXCEPT !.s = 1 - x.s]
XAbs(x) == [x EXCEPT !.s = 0]
XMul(x, y) == [s |-> (x.s + y.s) % 2, m |-> BMul(x.m, y.m), e |-> x.e + y.e]
XAdd(x, y) ==
    IF XIsZero(x) THEN y
    ELSE IF XIsZero(y) THEN x
    ELSE LET e == IF x.e < y.e THEN x.e ELSE y.e
             mx == BShl(x.m, x.e - e)
             my == BShl(y.m, y.e - e)
         IN  IF x.s = y.s THEN [s |-> x.s, m |-> BAdd(mx, my), e |-> e]
             ELSE IF BCmp(mx, my) >= 0 THEN [s |-> x.s, m |-> BSub(mx, my), e |-> e]
             ELSE [s |-> y.s, m |-> BSub(my, mx), e |-> e]
XSub(x, y) == XAdd(x, XNeg(y))
\* |x| <= |y|
XLeMag(x, y) ==
    IF XIsZero(x) THEN TRUE
    ELSE IF XIsZero(y) THEN FALSE
    ELSE LET e == IF x.e < y.e THEN x.e ELSE y.e
         IN  BCmp(BShl(x.m, x.e - e), BShl(y.m, y.e - e)) <= 0
XOne == XOf(One)

\* seq without its k-th element
Without(seq, k) == SubSeq(seq, 1, k - 1) \o SubSeq(seq, k + 1, Len(seq))

\* The determinant of the submatrix of m on the rows rs and columns cs, by
\* expansion along its first row, terms k .. Len(cs).
RECURSIVE Cofactors(_, _, _, _)
Cofactors(m, rs, cs, k) ==
    IF rs = <<>> THEN XOne
    ELSE IF k > Len(cs) THEN XOf(Zero)
    ELSE LET minor == Cofactors(m, Tail(rs), Without(cs, k), 1)
             term == XMul(XOf(matrix_get(m, rs[1], cs[k])), minor)
         IN  XAdd(IF k % 2 = 1 THEN term ELSE XNeg(term),
                  Cofactors(m, rs, cs, k + 1))

\* The mathematical determinant of a square matrix of finite doubles.
MathDet(m) ==
    Cofactors(m, [k \in 1..m.rows |-> k - 1], [k \in 1..m.cols |-> k - 1], 1)

\* |m[i][0]| + ... + |m[i][j-1]|
RECURSIVE RowSum(_, _, _)
RowSum(m, i, j) ==
    IF j = 0 THEN XOf(Zero)
    ELSE XAdd(RowSum(m, i, j - 1), XAbs(XOf(matrix_get(m, i, j - 1))))

\* The product of the absolute row sums of rows 0 .. i-1: the scale of the
\* matrix, which bounds the magnitude of its determinant.
RECURSIVE RowSumProduct(_, _)
RowSumProduct(m, i) ==
    IF i = 0 THEN XOne ELSE XMul(RowSumProduct(m, i - 1), RowSum(m, i - 1, m.cols))

IsSquare(m) == m.rows = m.cols
IdentityOf(n) == Mat(n, n, [k \in 0..(n * n - 1) |-> IF k \div n = k % n THEN One ELSE Zero])

\* x == y as a caller compares two doubles: 0.0 and -0.0 are equal, a NaN
\* equals nothing
REq(x, y) ==
    /\ x.k # "nan" /\ y.k # "nan"
    /\ (IsZero(x) /\ IsZero(y)) \/ x = y

\* The tolerance of the comparisons: 1e-9.
Tol == FromDecimal(1, 0 - 9)
\* |u - v| <= Tol
Within(u, v) == XLeMag(XSub(XOf(u), XOf(v)), XOf(Tol))
\* |u - v| <= Tol * max(|u|, |v|)
RelWithin(u, v) ==
    LET big == IF XLeMag(XOf(u), XOf(v)) THEN XOf(v) ELSE XOf(u)
    IN  XLeMag(XSub(XOf(u), XOf(v)), XMul(XOf(Tol), big))
\* u is the determinant of m up to rounding: within Tol of it, relative to
\* the scale of m
IsDetOf(u, m) ==
    XLeMag(XSub(XOf(u), MathDet(m)), XMul(XOf(Tol), RowSumProduct(m, m.rows)))
\* m is the identity of order n within Tol
IsIdentityWithin(m, n) ==
    /\ ~IsNull(m)
    /\ m.rows = n /\ m.cols = n
    /\ \A k \in DOMAIN m.data : Within(m.data[k], IdentityOf(n).data[k])

AllocOK == args.mallocOK /\ args.createOK
M1224 == Mat(2, 2, [k \in 0..3 |-> FromInt(<<1, 2, 2, 4>>[k + 1])])
M2412 == Mat(2, 2, [k \in 0..3 |-> FromInt(<<2, 4, 1, 2>>[k + 1])])

(***************************************************************************)
(* The claims.                                                             *)
(***************************************************************************)

\* C1: for every invertible square matrix A (determinant non-zero) the
\* matrix X that matrix_inverse(A) returns makes matrix_multiply(A, X) the
\* identity of the same order within tolerance.  (Stated on the matrices for
\* which a matrix is returned; the claim also has one returned for every
\* invertible A.)
InverseIsRightInverse ==
    (op = "inverse" /\ prod.done /\ IsSquare(a0) /\ ~XIsZero(MathDet(a0))
        /\ ~IsNull(ret.ret))
        => IsIdentityWithin(prod.ret, a0.rows)

\* C2, as claimed: for every square matrix of order n >= 1 whose working copy
\* is allocated, matrix_determinant returns the mathematical determinant (up
\* to rounding).
DeterminantIsMathDet ==
    (op = "determinant" /\ IsSquare(a0) /\ a0.rows >= 1 /\ args.mallocOK)
        => IsDetOf(ret.ret, a0)

\* C2, amended: for every square matrix of order n >= 1, matrix_determinant
\* returns the product of the pivots times the sign, which is the
\* mathematical determinant up to rounding, when the working copy is
\* allocated and no pivot is below EPS in magnitude; it returns 0.0 when a
\* pivot is below EPS or the copy cannot be allocated.  [[4,3],[6,3]] gives
\* -6 and the identity 1.0.
DeterminantUnlessTinyPivot ==
    (op = "determinant" /\ IsSquare(a0) /\ a0.rows >= 1)
        => /\ (args.mallocOK /\ ~ret.broke) => IsDetOf(ret.ret, a0)
           /\ (~args.mallocOK \/ ret.broke) => REq(ret.ret, Zero)
           /\ (args.mallocOK /\ a0 = M4363) => REq(ret.ret, FromInt(0 - 6))
           /\ (args.mallocOK /\ a0 = IdentityOf(a0.rows)) => REq(ret.ret, One)

\* C2's case: the determinant of [[4,3],[6,3]] was computed (a row swap, the
\* sign flipped once) and -6 returned.
DeterminantWitness ==
    op = "determinant" /\ a0 = M4363 /\ args.mallocOK /\ REq(ret.ret, FromInt(0 - 6))

\* C3: for every square matrix A, matrix_determinant(matrix_transpose(A))
\* equals matrix_determinant(A) within a relative tolerance of 1e-9.
DeterminantOfTranspose ==
    (op = "transpose" /\ IsSquare(a0) /\ ~IsNull(ret.ret))
        => RelWithin(matrix_determinant(ret.ret, TRUE).ret,
                     matrix_determinant(a0, TRUE).ret)

\* C4: for every singular square matrix A, matrix_inverse(A) fails and never
\* returns a result matrix, and matrix_determinant(A) returns 0.0.
SingularIsRejected ==
    (IsSquare(a0) /\ a0.rows >= 1 /\ XIsZero(MathDet(a0)))
        => /\ op = "inverse" => IsNull(ret.ret)
           /\ op = "determinant" => REq(ret.ret, Zero)

\* What reaches the caller of matrix_determinant: the double returned (the
\* diagnostic goes to stderr, which the caller does not read).
CallerSees(r) == r.ret

\* C5: on every input with rows # cols, matrix_determinant and
\* matrix_inverse fail in a way the caller can tell from any successful
\* result: the value returned is not one a successful call returns.
NotSquareIsDistinguishable ==
    (op \in {"determinant", "inverse"} /\ ~IsSquare(a0))
        => /\ op = "inverse" => IsNull(ret.ret)
           /\ op = "determinant" =>
                \A m \in {M2412, M4363, IdentityOf(1)} :
                    CallerSees(ret) # CallerSees(matrix_determinant(m, TRUE))

\* C6: matrix_determinant and matrix_inverse never mutate their input: on
\* every exit path rows, cols and all entries are as before the call.
InputUnchanged ==
    op \in {"determinant", "inverse"} => a = a0

\* C6's case: the inverse of [[4,3],[6,3]] was computed (rows swapped,
\* normalised and eliminated in E) and returned.
InputUnchangedWitness ==
    op = "inverse" /\ a0 = M4363 /\ ~IsNull(ret.ret) /\ a = a0

\* C8: every working buffer (mat, E) is released exactly once on every exit
\* path: after the call as many were freed as were allocated.
WorkingBufferReleased ==
    op \in {"determinant", "inverse"} => ret.frees = ret.mallocs

\* C8's case: matrix_inverse allocated E and left by the singular exit.
WorkingBufferWitness ==
    op = "inverse" /\ a0 = M1224 /\ AllocOK /\ IsNull(ret.ret)
        /\ ret.mallocs = 1 /\ ret.frees = 1

\* C9, as claimed: matrix_determinant on a 0 x 0 matrix returns 1.0 whatever
\* the zero-size allocation returns.
EmptyDeterminantIsOne ==
    (op = "determinant" /\ a0.rows = 0 /\ a0.cols = 0) => REq(ret.ret, One)

\* C9, amended: matrix_determinant on a 0 x 0 matrix returns 1.0 when the
\* zero-size allocation returns a non-NULL pointer and 0.0 when it returns
\* NULL.
EmptyDeterminantByMalloc ==
    (op = "determinant" /\ a0.rows = 0 /\ a0.cols = 0)
        => REq(ret.ret, IF args.mallocOK THEN One ELSE Zero)

\* C9's case: the determinant of the 0 x 0 matrix was computed with the
\* working buffer allocated.
EmptyDeterminantWitness ==
    op = "determinant" /\ a0.rows = 0 /\ a0.cols = 0 /\ args.mallocOK
        /\ REq(ret.ret, One)

\* C7: every Matrix returned by matrix_create(rows, cols), for every pair of
\* size_t values, owns a buffer of exactly rows * cols elements.
CreatedBufferHoldsRowsTimesCols ==
    (cres.called /\ ~IsNull(cres.m))
        => cres.m.len \o ToBytes(0, SizeBytes) = WideMul(cres.m.rows, cres.m.cols)

\* C10: in the menu loop the current-matrix pointer M is NULL or refers to a
\* matrix that has not been freed; no matrix is freed twice or used after
\* being freed; no matrix but the current one outlives the option that
\* allocated it, and at exit through option 0 every matrix has been freed.
MenuOwnsMatrices ==
    /\ ~heap.freedTwice
    /\ ~heap.usedAfterFree
    /\ pc = "menu" => (IsNull(M) \/ M.id \in heap.live)
    /\ pc = "menu" => heap.live = (IF IsNull(M) THEN {} ELSE {M.id})
    /\ pc = "exited" => heap.live = {}

\* C10's case: the program left through option 0 holding a current matrix,
\* which the exit freed.
MenuExitWitness ==
    pc = "exited" /\ opt = 0 /\ ~IsNull(M) /\ heap.live = {}
====
